---- MODULE Spec2Model ----
(***************************************************************************)
(* Shooting-method bound-state solver (NumerovSolverClass and the parts it *)
(* drives: XGrid, NumerovIntegrator, SymmetricNumerovIntegrator,           *)
(* EnergyRefiner, WavefunctionNormalizer).                                 *)
(*                                                                         *)
(* One solver instance is modelled.  A call of solve / solveSymmetric runs *)
(* to completion before the next call starts (the code is synchronous);    *)
(* its scan loop and its bisection loop advance one iteration per step.    *)
(*                                                                         *)
(* Numbers.  Energies and positions are integers.  An energy is a double   *)
(* in the code; the integer grid stands for the representable values, so   *)
(* the midpoint of two adjacent energies is one of the two.  Wavefunction  *)
(* amplitudes are small integers plus three IEEE-754 classes: Huge (finite,*)
(* its square overflows), Infinity and NaN.                                *)
(*                                                                         *)
(* Integrators.  The Numerov recurrence is a pure function of              *)
(* (E, V, grid[, parity]).  The scan and the refiner only look at the sign *)
(* of one entry of its result, so here an integrator is given by the sign  *)
(* of that entry as a function of E (`env`: the energies where it changes  *)
(* sign, and a table of energies where the sign is given outright) and by  *)
(* the class of the other entries.  The SHAPE of the array (its length,    *)
(* the seeded entries, the mirrored entries, the divergence fill) is built *)
(* as the code builds it.                                                  *)
(***************************************************************************)
EXTENDS Integers, Sequences, FiniteSets, TLC

(***************************************************************************)
(* Bounds of the model.                                                    *)
(***************************************************************************)
\* ENERGY_SCAN_STEPS is 200 in the source; here the scan has a small K.
ENERGY_SCAN_STEPS == 2

\* The literal 1000 of findBoundStatesSymmetric, scaled likewise and kept
\* different from ENERGY_SCAN_STEPS as it is in the source.
SYMMETRIC_SCAN_STEPS == 3

\* DEFAULT_RELATIVE_TOLERANCE is 1e-4 in the source: here 1/RelTolDen.
RelTolDen == 2

\* relativePrecision of refineEnergySymmetric is 1e-8: here 1/SymRelTolDen.
SymRelTolDen == 4

\* Width of one forward scan step in representable energies is
\* SYMMETRIC_SCAN_STEPS * RefineUnit (and the other way round).
RefineUnit == 4

\* Saturation of the loop counters (they only observe the loops).
MaxCount == 8

(***************************************************************************)
(* IEEE-754 classes of a JavaScript number that the code can meet.         *)
(***************************************************************************)
\* 1e100, the value fillInfinity writes: large, its square still finite.
Large == 100
\* A finite magnitude whose square overflows (beyond about 1.3e154).
Huge == 1000
Infinity == 1000000000
NaN == 2000000000

IsNaN(x) == x = NaN

\* isFinite( x )
IsFinite(x) == x # NaN /\ x # Infinity /\ x # -Infinity

\* Math.sign
Sign(x) == IF IsNaN(x) THEN NaN ELSE IF x > 0 THEN 1 ELSE IF x < 0 THEN -1 ELSE 0

\* a !== b on numbers
StrictNotEqual(a, b) == IsNaN(a) \/ IsNaN(b) \/ a # b

\* a === b on numbers
StrictEqual(a, b) == ~StrictNotEqual(a, b)

\* a > b on numbers (false when either is NaN)
Greater(a, b) == ~IsNaN(a) /\ ~IsNaN(b) /\ a > b

\* a <= b on numbers (false when either is NaN)
LessEq(a, b) == ~IsNaN(a) /\ ~IsNaN(b) /\ a <= b

Abs(x) == IF IsNaN(x) THEN NaN ELSE IF x < 0 THEN -x ELSE x

Min(a, b) == IF a < b THEN a ELSE b
Max(a, b) == IF a > b THEN a ELSE b

(***************************************************************************)
(* State.                                                                  *)
(***************************************************************************)
VARIABLES
  assertEnabled,     \* is the global `assert` of the build truthy?
  refiner,           \* EnergyRefiner fields: tolerance (num/den), isRelative
  energyToleranceOverride, \* NumerovSolverClass field: [given, value]
  method,            \* WavefunctionNormalizer.method
  pc,                \* "idle", "scan", "refine"
  call,              \* arguments of the running (or last) call
  grid,              \* the XGrid built by the call
  xGridArray,        \* grid.getArray()
  V,                 \* potential samples
  energyStep,        \* locals of findBoundStates[Symmetric]
  E,
  prevSign,
  prevEnergy,
  energies,
  wavefunctions,
  energyLow,         \* locals of refine / refineEnergySymmetric
  energyHigh,
  env,               \* the integrators at hand: boundary sign as a function of E, array class
  outcome,           \* how the last call ended: "none", "returned", "integrated", "threw"
  result,            \* the value the last call returned
  history,           \* <<arguments, result>> of every call that returned, in order
  plan,              \* the calls the caller has still to make
  scanIterations,    \* observers of the running call
  refineIterations,
  integrateCalls,
  integratedGrids,   \* grids that an integrator has received
  scanEnergies,      \* energies integrated by the scan (energyMin first), in order
  scanSigns,         \* their boundary signs
  brackets,          \* <<prevEnergy, E>> of every refiner call of the running call
  psiReturned        \* the array the caller's own call of integrate returned

vars == <<assertEnabled, refiner, energyToleranceOverride, method, pc, call, grid,
          xGridArray, V, energyStep, E, prevSign, prevEnergy, energies,
          wavefunctions, energyLow, energyHigh, env, outcome, result,
          history, plan, scanIterations, refineIterations, integrateCalls,
          integratedGrids, scanEnergies, scanSigns, brackets, psiReturned>>

(***************************************************************************)
(* XGrid.                                                                  *)
(***************************************************************************)
\* The constructor's two assertions; they run only when `assert` is truthy.
XGridAssertions(xMin, xMax, numPoints) == numPoints >= 2 /\ xMax > xMin

XGridConstructorThrows(enabled, xMin, xMax, numPoints) ==
  enabled /\ ~XGridAssertions(xMin, xMax, numPoints)

XGrid(xMin, xMax, numPoints) == [xMin |-> xMin, xMax |-> xMax, numPoints |-> numPoints]

\* getLength()
GetLength(g) == g.numPoints

\* getNumberOfPoints(), which the refiners call: numPoints of the grid.
GetNumberOfPoints(g) == g.numPoints

\* getDx() is (xMax - xMin) / (numPoints - 1): kept as the two integers.
DxNum(g) == g.xMax - g.xMin
DxDen(g) == g.numPoints - 1

\* A grid whose dx is a positive finite number and that has two points or more.
ValidGrid(g) == g.numPoints >= 2 /\ g.xMax > g.xMin

\* getArray(): position i in units of 1/(numPoints-1).  With numPoints = 1,
\* dx is Infinity and xMin + 0 * dx is NaN.
GetArray(g) ==
  [i \in 1..Max(g.numPoints, 0) |->
     IF g.numPoints = 1 THEN NaN
     ELSE g.xMin * (g.numPoints - 1) + (i - 1) * (g.xMax - g.xMin)]

\* Math.round of p/q for q > 0 (halves go up)
RoundDiv(p, q) == (2 * p + q) \div (2 * q)

\* getValueAt( index ): xMin + index * dx, in units of 1/(numPoints-1) as in
\* GetArray, for 0 <= index < numPoints.
GetValueAt(g, index) == g.xMin * (g.numPoints - 1) + index * (g.xMax - g.xMin)

\* As FindCenterIndex, the fraction taken of numPoints instead of numPoints - 1.
FindCenterIndexOfPoints(g) ==
  Max(0, Min(g.numPoints - 1,
             RoundDiv((0 - g.xMin) * g.numPoints, g.xMax - g.xMin)))

\* findCenterIndex() (0-based), for a grid with xMax > xMin
FindCenterIndex(g) ==
  Max(0, Min(g.numPoints - 1,
             RoundDiv((0 - g.xMin) * (g.numPoints - 1), g.xMax - g.xMin)))

(***************************************************************************)
(* The integrators.                                                        *)
(*                                                                         *)
(* s is the sign of the last entry the integrator writes and t the class   *)
(* of the entries the recurrence produces: "finite", "zero" (the seed      *)
(* underflowed to 0, so every entry is 0), "huge" (finite entries whose    *)
(* squares overflow) or "filled" (the divergence guard fired).             *)
(***************************************************************************)
\* Math.abs( x ) > 1e300: Huge stands for the finite magnitudes above 1e300.
ExceedsGuard(x) == ~IsNaN(x) /\ Abs(x) >= Huge

\* numerovStep: value is what the arithmetic gives for operands that are
\* numbers (it can overflow to +-Infinity, or be NaN from Infinity - Infinity
\* or 0 / 0); a NaN operand gives NaN.
NumerovStep(psi_j, psi_jMinus1, value) ==
  IF IsNaN(psi_j) \/ IsNaN(psi_jMinus1) THEN NaN ELSE value

\* As FillDivergent, but with the default value of the parameter `value`.
FillDivergentDefault(psi, startIndex, value) ==
  [k \in DOMAIN psi |-> IF k - 1 >= startIndex THEN Huge ELSE psi[k]]

\* fillDivergent( psi, startIndex, value ); startIndex is 0-based.
FillDivergent(psi, startIndex, value) ==
  [k \in DOMAIN psi |-> IF k - 1 >= startIndex THEN value ELSE psi[k]]

\* integrateForward( psi, f ) from the iteration j (0-based) on; r[j + 2] is
\* the value of the Numerov step that writes psi[ j + 1 ].
RECURSIVE IntegrateForward(_, _, _)
IntegrateForward(psi, r, j) ==
  IF ~(j < Len(psi) - 1) THEN psi
  ELSE LET next == NumerovStep(psi[j + 1], psi[j], r[j + 2])
           written == [psi EXCEPT ![j + 2] = next]
       IN IF ExceedsGuard(next) THEN FillDivergent(written, j + 1, next)
          ELSE IntegrateForward(written, r, j + 1)

\* integrate for a grid of N >= 2 points: new Array( N ).fill( 0 ), psi[ 0 ] = 0,
\* psi[ 1 ] = r[2] (setInitialConditions), then integrateForward.
IntegrateSteps(N, r) ==
  IntegrateForward([k \in 1..N |-> IF k = 2 THEN r[2] ELSE 0], r, 1)

\* The seed and the step values that give an array of class t ending in s.
StepsFor(g, s, t) ==
  LET N == GetLength(g) IN
  [k \in 1..N |->
     IF k = 1 THEN 0
     ELSE IF ~ValidGrid(g) THEN (IF IsNaN(s) THEN NaN ELSE Infinity)
     ELSE IF N = 2 THEN s
     ELSE IF t = "zero" THEN 0
     ELSE IF k = 2 THEN 1
     ELSE IF IsNaN(s) THEN NaN
     ELSE IF t = "filled" THEN s * Huge
     ELSE IF k = N THEN s ELSE 1]

\* psi as the forward integrator builds it.
\*   numPoints = 1: new Array(1).fill(0), then psi[1] = psiScale * exp(NaN).
\*   xMax < xMin:   L < 0, sqrt(L) is NaN, every later entry is NaN.
\*   xMax = xMin:   psiScale is Infinity; psi[1] is NaN or Infinity, and the
\*                  recurrence with f = 0 keeps it.
IntegratePsi(g, s, t) ==
  LET N == GetLength(g) IN
  IF N < 2 THEN <<0, NaN>> ELSE IntegrateSteps(N, StepsFor(g, s, t))

\* The signs the last entry of integrate()'s array can have.
IntegrateSigns(g) ==
  IF GetLength(g) < 2 \/ g.xMax < g.xMin THEN {NaN}
  ELSE IF g.xMax = g.xMin THEN {NaN, 1}
  ELSE IF GetLength(g) = 2 THEN {-1, 0, 1}
  ELSE {-1, 0, 1, NaN}

IntegrateTails(g, s) ==
  IF ~ValidGrid(g) \/ GetLength(g) < 3 \/ IsNaN(s) THEN {"finite"}
  ELSE IF s = 0 THEN {"finite", "zero"}
  ELSE {"finite", "filled"}

\* Does integrateFromCenter's recurrence run at all (centerIdx + 1 < N - 1)?
RecurrenceRuns(g) == FindCenterIndex(g) + 1 < GetLength(g) - 1

\* paritySign * x
Mirror(paritySign, x) == IF IsNaN(x) THEN NaN ELSE paritySign * x

\* psi[ i ] = value for a 0-based i <= psi.length: writing at psi.length makes
\* the array one entry longer.
Write(psi, i, value) ==
  IF i + 1 \in DOMAIN psi THEN [psi EXCEPT ![i + 1] = value] ELSE Append(psi, value)

\* SymmetricNumerovIntegrator.setInitialConditions; seed is 1 - 6 * f[ centerIdx ],
\* and dx is positive and finite on a valid grid.
SetInitialConditionsFromCenter(psi, centerIdx, parity, seed) ==
  IF parity = "symmetric"
  THEN Write(Write(psi, centerIdx, 1), centerIdx + 1, seed)
  ELSE Write(Write(psi, centerIdx, 0), centerIdx + 1, 1)

\* fillInfinity( psi, startIdx ): psi[ k ] = 1e100
FillInfinity(psi, startIdx) ==
  [k \in DOMAIN psi |-> IF k - 1 >= startIdx THEN Large ELSE psi[k]]

\* SymmetricNumerovIntegrator.integrateForward from the iteration j (0-based)
\* on; r[j + 2] is the value of the step that writes psi[ j + 1 ].
RECURSIVE IntegrateForwardFromCenter(_, _, _)
IntegrateForwardFromCenter(psi, r, j) ==
  IF ~(j < Len(psi) - 1) THEN psi
  ELSE LET next == NumerovStep(psi[j + 1], psi[j], r[j + 2])
           written == [psi EXCEPT ![j + 2] = next]
       IN IF ~IsFinite(next) THEN FillInfinity(written, j + 1)
          ELSE IntegrateForwardFromCenter(written, r, j + 1)

\* As ApplyParity, but the left half is left as the recurrence found it.
ApplyParityNone(psi, centerIdx, parity) == psi

\* applyParity( psi, centerIdx, parity )
ApplyParity(psi, centerIdx, parity) ==
  [k \in DOMAIN psi |->
     IF k - 1 < centerIdx /\ 2 * centerIdx - (k - 1) < Len(psi)
     THEN Mirror(IF parity = "symmetric" THEN 1 ELSE -1, psi[2 * centerIdx - (k - 1) + 1])
     ELSE psi[k]]

\* integrateFromCenter on a valid grid: r[centerIdx + 2] is the symmetric seed,
\* r[k + 1] for k > centerIdx + 1 the value of the step that writes psi[ k ].
IntegrateFromCenterSteps(g, parity, r) ==
  ApplyParity(
    IntegrateForwardFromCenter(
      SetInitialConditionsFromCenter([k \in 1..GetLength(g) |-> 0], FindCenterIndex(g),
                                     parity, r[FindCenterIndex(g) + 2]),
      r, FindCenterIndex(g) + 1),
    FindCenterIndex(g), parity)

\* The seed and the step values that give an array of class t ending in s.
StepsFromCenterFor(g, s, t) ==
  [k \in 1..(GetLength(g) + 1) |->
     IF k - 1 <= FindCenterIndex(g) THEN 0
     ELSE IF k - 1 = FindCenterIndex(g) + 1 THEN (IF RecurrenceRuns(g) THEN 1 ELSE s)
     ELSE IF t = "filled" THEN Infinity
     ELSE IF t = "huge" THEN s * Huge
     ELSE IF k = GetLength(g) THEN s ELSE 1]

\* psi as integrateFromCenter builds it on a grid with xMax > xMin, N >= 2.
IntegrateFromCenterPsi(g, parity, s, t) ==
  IntegrateFromCenterSteps(g, parity, StepsFromCenterFor(g, s, t))

\* The signs the last entry of integrateFromCenter()'s array can have: the
\* antisymmetric seed psi[centerIdx + 1] = dx is positive.
IntegrateFromCenterSigns(g, parity) ==
  IF ~RecurrenceRuns(g) /\ parity = "antisymmetric" THEN {1} ELSE {-1, 0, 1}

IntegrateFromCenterTails(g, s) ==
  IF ~RecurrenceRuns(g) \/ s = 0 THEN {"finite"}
  ELSE IF s = 1 THEN {"finite", "huge", "filled"}
  ELSE {"finite", "huge"}

\* this.integrator.integrate / this.symmetricIntegrator.integrateFromCenter
Psi(kind, parity, g, s, t) ==
  IF kind = "numerov" THEN IntegratePsi(g, s, t)
  ELSE IntegrateFromCenterPsi(g, parity, s, t)

Signs(kind, parity, g) ==
  IF kind = "numerov" THEN IntegrateSigns(g) ELSE IntegrateFromCenterSigns(g, parity)

Tails(kind, g, s) ==
  IF kind = "numerov" THEN IntegrateTails(g, s) ELSE IntegrateFromCenterTails(g, s)

\* The sign of the boundary value at energy e for the integrators en: the
\* one en.table gives, else it flips at each energy of en.nodes and is 0 there.
SignAt(en, e) ==
  IF e \in DOMAIN en.table THEN en.table[e]
  ELSE IF e \in en.nodes THEN 0
  ELSE IF Cardinality({z \in en.nodes : z < e}) % 2 = 0 THEN en.base
  ELSE 0 - en.base

\* ... on a grid where only the signs S can come out.
OnGrid(S, x) == IF x \in S THEN x ELSE IF NaN \in S THEN NaN ELSE 1

\* NumerovSolverClass.getEndValue: psi[ psi.length - 1 ]
GetEndValue(psi) == psi[Len(psi)]

\* EnergyRefiner.getEndValue and refineEnergySymmetric: psi[ N - 1 ]
GetEndValueN(psi, N) == psi[N]

(***************************************************************************)
(* WavefunctionNormalizer.                                                 *)
(***************************************************************************)
\* x * x (and x ** 2) in double arithmetic
Square(x) ==
  IF IsNaN(x) THEN NaN ELSE IF Abs(x) >= Huge THEN Infinity ELSE x * x

\* a + b for a, b >= 0 or NaN
Plus(a, b) ==
  IF IsNaN(a) \/ IsNaN(b) THEN NaN
  ELSE IF a = Infinity \/ b = Infinity THEN Infinity
  ELSE a + b

\* k * a for an integer k > 0
Times(k, a) ==
  IF IsNaN(a) THEN NaN ELSE IF a = Infinity THEN Infinity ELSE k * a

\* psi[ i ] for a 0-based index i; reading past the end gives undefined,
\* which arithmetic turns into NaN.
At(psi, i) == IF i + 1 \in DOMAIN psi THEN psi[i + 1] ELSE NaN

\* Twice the sum of calculateTrapezoidalIntegral, before the factor dx.
RECURSIVE TrapezoidalSum(_, _)
TrapezoidalSum(psi, i) ==
  IF i >= Len(psi) - 1 THEN 0
  ELSE Plus(Plus(Square(At(psi, i)), Square(At(psi, i + 1))),
            TrapezoidalSum(psi, i + 1))

\* The sum of calculateSimpsonIntegral, before the factor dx / 3.
RECURSIVE SimpsonSum(_, _, _)
SimpsonSum(psi, i, limit) ==
  IF i >= limit THEN 0
  ELSE Plus(Plus(Plus(Square(At(psi, i)), Times(4, Square(At(psi, i + 1)))),
                 Square(At(psi, i + 2))),
            SimpsonSum(psi, i + 2, limit))

\* A quantity a * dx / d, a >= 0 or NaN, as a number class and a fraction.
\* dx is DxNum / DxDen; on the grids with DxDen = 0 or DxNum <= 0 that reach
\* the normalizer every array holds a NaN or an Infinity, and the product
\* with dx is then NaN, Infinity or -Infinity.
TimesDx(a, d, g) ==
  IF IsNaN(a) \/ (DxNum(g) = 0 /\ DxDen(g) = 0)
  THEN [class |-> "nan", num |-> 0, den |-> 1]
  ELSE IF a = Infinity THEN
    [class |-> IF DxNum(g) = 0 THEN "nan" ELSE "infinite", num |-> 0, den |-> 1]
  ELSE IF DxDen(g) = 0 THEN
    [class |-> IF a = 0 THEN "nan" ELSE "infinite", num |-> 0, den |-> 1]
  ELSE [class |-> "finite", num |-> a * DxNum(g), den |-> d * DxDen(g)]

\* As CalculateTrapezoidalIntegral, without the factor 1/2 of the rule.
CalculateTrapezoidalIntegralNoHalf(psi, g) == TimesDx(TrapezoidalSum(psi, 0), 1, g)

\* calculateTrapezoidalIntegral( psi, dx )
CalculateTrapezoidalIntegral(psi, g) == TimesDx(TrapezoidalSum(psi, 0), 2, g)

\* The 0-based indices calculateSimpsonIntegral reads of an array of N entries.
SimpsonIndices(N) ==
  LET limit == IF N % 2 = 1 THEN N - 2 ELSE N - 1 IN
  UNION { {i, i + 1, i + 2} : i \in { k \in 0..(limit - 1) : k % 2 = 0 } }
    \cup (IF N % 2 = 1 THEN {N - 2, N - 1} ELSE {})

\* calculateSimpsonIntegral( psi, dx ): sum * dx / 3, plus the trapezoid of the
\* last interval when psi.length is odd.
CalculateSimpsonIntegral(psi, g) ==
  LET N == Len(psi)
      limit == IF N % 2 = 1 THEN N - 2 ELSE N - 1
      sum == SimpsonSum(psi, 0, limit)
      lastTerm == Plus(Square(At(psi, N - 2)), Square(At(psi, N - 1)))
  IN IF N % 2 = 1 THEN TimesDx(Plus(Times(2, sum), Times(3, lastTerm)), 6, g)
     ELSE TimesDx(sum, 3, g)

\* findMaxAbsoluteValue( psi ): Math.max keeps a NaN.
RECURSIVE FindMaxAbsoluteValue(_, _)
FindMaxAbsoluteValue(psi, i) ==
  IF i > Len(psi) THEN 0
  ELSE LET rest == FindMaxAbsoluteValue(psi, i + 1)
           a == Abs(psi[i])
       IN IF IsNaN(a) \/ IsNaN(rest) THEN NaN ELSE Max(a, rest)

\* The copy scaleWavefunction returns when it does not divide.
Unscaled(psi) == [psi |-> psi, by |-> "none", num |-> 1, den |-> 1]

\* scaleWavefunction( psi, Math.sqrt( integral ) ): every entry is divided by
\* sqrt(num / den), unless the factor is 0 or not finite.
ScaleBySqrt(psi, integral) ==
  IF integral.class # "finite" \/ integral.num = 0 \/ integral.num * integral.den < 0
  THEN Unscaled(psi)
  ELSE [psi |-> psi, by |-> "sqrt", num |-> integral.num, den |-> integral.den]

\* As ScaleByValue, without the test of the factor.
ScaleByValueUnguarded(psi, maxAbs) == [psi |-> psi, by |-> "value", num |-> maxAbs, den |-> 1]

\* scaleWavefunction( psi, maxAbs ): every entry is divided by maxAbs.
ScaleByValue(psi, maxAbs) ==
  IF maxAbs = 0 \/ ~IsFinite(maxAbs) THEN Unscaled(psi)
  ELSE [psi |-> psi, by |-> "value", num |-> maxAbs, den |-> 1]

NormalizeTrapezoidal(psi, g) == ScaleBySqrt(psi, CalculateTrapezoidalIntegral(psi, g))
NormalizeSimpson(psi, g) == ScaleBySqrt(psi, CalculateSimpsonIntegral(psi, g))
NormalizeMax(psi) == ScaleByValue(psi, FindMaxAbsoluteValue(psi, 1))

\* normalize( psi, dx )
Normalize(m, psi, g) ==
  IF m = "simpson" THEN NormalizeSimpson(psi, g)
  ELSE IF m = "max" THEN NormalizeMax(psi)
  ELSE NormalizeTrapezoidal(psi, g)

(***************************************************************************)
(* Inputs: the builds, option objects, integrators and calls tried.        *)
(***************************************************************************)
\* One scan step is a whole number of representable energies for both scans.
EnergyUnit == ENERGY_SCAN_STEPS * SYMMETRIC_SCAN_STEPS * RefineUnit

\* options of new NumerovSolverClass( mass, options )
Options(given, value, m) ==
  [energyToleranceGiven |-> given, energyTolerance |-> value, normalizationMethod |-> m]

DefaultOptions == Options(FALSE, 0, "trapezoidal")

GridConfig(xMin, xMax, numPoints) == [xMin |-> xMin, xMax |-> xMax, numPoints |-> numPoints]

\* Valid grid configurations: symmetric about 0, two points, lying in x <= 0,
\* lying in x >= 0.
BasicGrid == GridConfig(-1, 1, 3)
ValidGridConfigs == { BasicGrid, GridConfig(0, 1, 2), GridConfig(-2, 0, 3), GridConfig(0, 3, 4) }

\* Invalid ones: one point, xMax = xMin, xMax < xMin.
InvalidGridConfigs == { GridConfig(-1, 1, 1), GridConfig(0, 0, 2), GridConfig(1, -1, 3) }

\* Energy windows <<energyMin, energyMax>>: proper, empty, reversed.
BasicWindow == <<0, EnergyUnit>>
ProperWindows == { BasicWindow, <<EnergyUnit, 3 * EnergyUnit>> }
ImproperWindows == { <<EnergyUnit, EnergyUnit>>, <<EnergyUnit, 0>> }

SolveCall(gc, w) ==
  [kind |-> "numerov", parity |-> "none", gridConfig |-> gc,
   energyMin |-> w[1], energyMax |-> w[2]]

SolveSymmetricCall(gc, w, parity) ==
  [kind |-> "numerov-symmetric", parity |-> parity, gridConfig |-> gc,
   energyMin |-> w[1], energyMax |-> w[2]]

Parities == { "symmetric", "antisymmetric" }

\* A call integrator.integrate( e, V, grid ) by a caller with its own grid
\* new XGrid( gc ) and an array V of the given number of samples.
IntegrateCall(gc, e, samples) ==
  [kind |-> "integrate", parity |-> "none", gridConfig |-> gc,
   energyMin |-> e, energyMax |-> e, samples |-> samples, steps |-> <<>>]

\* Such a call with E and V for which setInitialConditions and the Numerov
\* steps give the values r (r[2] is psi[ 1 ], r[k + 1] the step for psi[ k ]).
IntegrateStepsCall(gc, r) ==
  [kind |-> "integrate", parity |-> "none", gridConfig |-> gc,
   energyMin |-> 0, energyMax |-> 0, samples |-> gc.numPoints, steps |-> r]

\* What a Numerov step can give, and what setInitialConditions can.
StepValues == { -Infinity, -Huge, -1, 0, 1, Huge, Infinity, NaN }
SeedValues == { -1, 0, 1, NaN }

IntegrateStepsCalls ==
  { IntegrateStepsCall(gc, r) :
      gc \in ValidGridConfigs,
      r \in UNION { { q \in [1..n -> StepValues] : q[1] = 0 /\ q[2] \in SeedValues } :
                      n \in { c.numPoints : c \in ValidGridConfigs } } }

\* A call symmetricIntegrator.integrateFromCenter( e, V, grid, parity ) by a
\* caller with its own grid, for E and V that give the step values r.
IntegrateFromCenterCall(gc, parity, r) ==
  [kind |-> "integrateFromCenter", parity |-> parity, gridConfig |-> gc,
   energyMin |-> 0, energyMax |-> 0, samples |-> gc.numPoints, steps |-> r]

\* The step values that matter on the grid gc: the symmetric seed at
\* centerIdx + 1 and the steps to the right of it.
StepsFromCenter(gc, parity) ==
  LET g == XGrid(gc.xMin, gc.xMax, gc.numPoints)
      c == FindCenterIndex(g)
  IN { q \in [1..(gc.numPoints + 1) -> StepValues] :
         \A k \in DOMAIN q :
           \/ k - 1 > c + 1 /\ k <= gc.numPoints
           \/ k - 1 = c + 1 /\ parity = "symmetric"
           \/ q[k] = 0 }

\* A valid grid that is not symmetric about x = 0: positions -2, -1, 0, 1.
OffCenterGrid == GridConfig(-2, 1, 4)

\* Valid grids lying in x < 0 and in x > 0, where the rounded index is
\* outside [0, numPoints-1], and a symmetric one of five points.
SymmetricFivePoints == GridConfig(-2, 2, 5)
CenterGrids == { GridConfig(-3, -1, 3), GridConfig(1, 2, 2), SymmetricFivePoints }

IntegrateFromCenterCalls ==
  UNION { { IntegrateFromCenterCall(gc, p, r) : r \in StepsFromCenter(gc, p) } :
            gc \in ValidGridConfigs \cup {OffCenterGrid} \cup CenterGrids, p \in Parities }


\* Such calls with an array V one short of, as long as and one longer than the grid.
IntegrateCalls ==
  { IntegrateCall(gc, e, gc.numPoints + d) :
      gc \in ValidGridConfigs \cup InvalidGridConfigs, e \in {0, EnergyUnit}, d \in {-1, 0, 1} }

\* Every valid grid with the basic window, the basic grid with every window.
ValidSolveCalls ==
  { SolveCall(gc, BasicWindow) : gc \in ValidGridConfigs }
    \cup { SolveCall(BasicGrid, w) : w \in ProperWindows \cup ImproperWindows }

ValidSolveSymmetricCalls ==
  { SolveSymmetricCall(gc, BasicWindow, p) : gc \in ValidGridConfigs, p \in Parities }
    \cup { SolveSymmetricCall(BasicGrid, w, p) :
             w \in ProperWindows \cup ImproperWindows, p \in Parities }

InvalidSolveCalls == { SolveCall(gc, BasicWindow) : gc \in InvalidGridConfigs }

\* Classes of integrator: the boundary sign as a function of E, and the
\* class of the entries the recurrence produces (see the integrators).
Integrators(base, nodes, table, t) ==
  [base |-> base, nodes |-> nodes, table |-> table, tail |-> t]

\* Energies of the basic window where the sign may change: inside the first
\* refinement cell, at a scan energy of either scan, just above one, near and
\* at the upper end.
NodeCandidates ==
  { RefineUnit - 1, ENERGY_SCAN_STEPS * RefineUnit, SYMMETRIC_SCAN_STEPS * RefineUnit,
    SYMMETRIC_SCAN_STEPS * RefineUnit + 1, EnergyUnit - RefineUnit, EnergyUnit }

MaxNodes == 3

NodeSets == { Z \in SUBSET NodeCandidates : Cardinality(Z) <= MaxNodes }

\* A few of them, for the calls that vary something else.
FewNodeSets ==
  { {}, {RefineUnit - 1}, {RefineUnit - 1, EnergyUnit - RefineUnit},
    {SYMMETRIC_SCAN_STEPS * RefineUnit + 1} }

\* The energies the scan of the basic window integrates at (energyMin included).
ScanEnergies(steps) == { i * (EnergyUnit \div steps) : i \in 0..steps }

\* Sign changes anywhere in the basic window, every array finite.
Plain == { Integrators(b, Z, <<>>, "finite") : b \in {-1, 1}, Z \in NodeSets }

\* Every assignment of the signs S to the scan energies of the basic window.
Tabled(steps, S) ==
  { Integrators(b, {}, f, "finite") : b \in {-1, 1}, f \in [ScanEnergies(steps) -> S] }

\* One sign change, at any energy of the basic window.
OneNode(t) == { Integrators(b, {e}, <<>>, t) : b \in {-1, 1}, e \in 0..EnergyUnit }

Few(t) == { Integrators(b, Z, <<>>, t) : b \in {-1, 1}, Z \in FewNodeSets }

\* NaN at one scan energy.
WithNaN ==
  { Integrators(1, Z, e :> NaN, "finite") :
      Z \in FewNodeSets, e \in {0, SYMMETRIC_SCAN_STEPS * RefineUnit, EnergyUnit} }

\* A scenario: the build, the options, the integrators, the calls in order.
Scenario(a, o, e, calls) == [assert |-> a, options |-> o, env |-> e, plan |-> calls]

BasicSolve == SolveCall(BasicGrid, BasicWindow)
BasicSolveSymmetric == SolveSymmetricCall(BasicGrid, BasicWindow, "symmetric")

Scenarios ==
  \* default options, assertions off: the basic calls with every integrator
  { Scenario(FALSE, DefaultOptions, e, <<c>>) :
      e \in Plain \cup OneNode("finite"), c \in {BasicSolve, BasicSolveSymmetric} }
  \cup { Scenario(FALSE, DefaultOptions, e, <<BasicSolve>>) :
           e \in Tabled(ENERGY_SCAN_STEPS, {-1, 0, 1}) }
  \cup { Scenario(FALSE, DefaultOptions, e, <<BasicSolveSymmetric>>) :
           e \in Tabled(SYMMETRIC_SCAN_STEPS, {-1, 0, 1}) }
  \* every valid call
  \cup { Scenario(FALSE, DefaultOptions, e, <<c>>) :
           e \in Few("finite"), c \in ValidSolveCalls \cup ValidSolveSymmetricCalls }
  \* invalid grids with assertions on and off
  \cup { Scenario(a, DefaultOptions, e, <<c>>) :
           a \in BOOLEAN, e \in Few("finite"), c \in InvalidSolveCalls }
  \cup { Scenario(TRUE, DefaultOptions, e, <<BasicSolve>>) : e \in Few("finite") }
  \* an absolute energyTolerance: 0, and half a symmetric scan step
  \cup { Scenario(FALSE, Options(TRUE, tol, "trapezoidal"), e, <<c>>) :
           tol \in { 0, (ENERGY_SCAN_STEPS * RefineUnit) \div 2 },
           e \in Few("finite"),
           c \in {BasicSolve, BasicSolveSymmetric} }
  \* an absolute energyTolerance of one representable energy, the sign changing
  \* right above energyMin
  \cup { Scenario(FALSE, Options(TRUE, 1, "trapezoidal"),
                  Integrators(b, {}, 0 :> (0 - b), "finite"), <<c>>) :
           b \in {-1, 1}, c \in {BasicSolve, BasicSolveSymmetric} }
  \* a window so narrow that the scan energies are neighbouring representable
  \* energies, the sign changing right above energyMin
  \cup { Scenario(FALSE, DefaultOptions, Integrators(b, {}, 0 :> (0 - b), "finite"),
                  <<SolveCall(BasicGrid, <<0, ENERGY_SCAN_STEPS>>)>>) : b \in {-1, 1} }
  \* the integrator called by itself
  \cup { Scenario(a, DefaultOptions, e, <<c>>) :
           a \in BOOLEAN,
           e \in Few("finite") \cup Few("filled") \cup WithNaN,
           c \in IntegrateCalls }
  \* the integrator called by itself, for every course of the recurrence
  \cup { Scenario(FALSE, DefaultOptions, Integrators(1, {}, <<>>, "finite"), <<c>>) :
           c \in { d \in IntegrateStepsCalls : Len(d.steps) = d.gridConfig.numPoints } }
  \cup { Scenario(a, DefaultOptions, Integrators(1, {}, <<>>, "finite"), <<c>>) :
           a \in BOOLEAN, c \in IntegrateFromCenterCalls }
  \* arrays that overflow, vanish or hold NaN, under each normalization method
  \cup { Scenario(FALSE, Options(FALSE, 0, m), e, <<SolveCall(gc, BasicWindow)>>) :
           m \in { "trapezoidal", "simpson", "max" },
           e \in Few("finite") \cup Few("filled") \cup OneNode("zero") \cup WithNaN,
           gc \in { BasicGrid, GridConfig(0, 1, 2), GridConfig(0, 3, 4) } }
  \cup { Scenario(FALSE, DefaultOptions, e,
                  <<SolveSymmetricCall(GridConfig(0, 3, 4), BasicWindow, p)>>) :
           e \in Few("filled") \cup Few("huge"), p \in Parities }
  \* arrays with the same value in every entry, under Simpson's rule
  \cup { Scenario(FALSE, Options(FALSE, 0, "simpson"), e,
                  <<SolveSymmetricCall(gc, BasicWindow, "symmetric")>>) :
           e \in Few("finite"), gc \in { BasicGrid, GridConfig(0, 3, 4) } }
  \* the same call again after another one
  \cup { Scenario(FALSE, DefaultOptions, e, <<cd[1], cd[2], cd[1]>>) :
           e \in Few("finite"),
           cd \in { <<BasicSolve, BasicSolveSymmetric>>, <<BasicSolveSymmetric, BasicSolve>>,
                    <<BasicSolve, SolveCall(BasicGrid, <<0, 3 * EnergyUnit>>)>> } }

\* The caller's potential function, here V(x) = x * x (x in grid units).
Potential(x) == IF IsNaN(x) THEN NaN ELSE x * x

\* As EvaluatePotential, the positions taken from the last one to the first.
EvaluatePotentialReversed(xs) == [i \in DOMAIN xs |-> Potential(xs[Len(xs) + 1 - i])]

\* evaluatePotential: xGridArray.map( potential )
EvaluatePotential(xs) == [i \in DOMAIN xs |-> Potential(xs[i])]

(***************************************************************************)
(* Construction.                                                           *)
(***************************************************************************)
\* new EnergyRefiner( integrator, energyRefinerOptions ) as the solver's
\* constructor calls it: an energyTolerance is absolute, the default relative.
EnergyRefinerFields(options) ==
  IF options.energyToleranceGiven
  THEN [tolNum |-> options.energyTolerance, tolDen |-> 1, isRelative |-> FALSE]
  ELSE [tolNum |-> 1, tolDen |-> RelTolDen, isRelative |-> TRUE]

\* The state after new NumerovSolverClass( mass, sc.options ).
InitOf(sc) ==
  /\ assertEnabled = sc.assert
  /\ refiner = EnergyRefinerFields(sc.options)
  /\ energyToleranceOverride =
       [given |-> sc.options.energyToleranceGiven, value |-> sc.options.energyTolerance]
  /\ method = sc.options.normalizationMethod
  /\ env = sc.env
  /\ plan = sc.plan
  /\ pc = "idle"
  /\ call = [kind |-> "none", parity |-> "none", gridConfig |-> GridConfig(0, 1, 2),
             energyMin |-> 0, energyMax |-> 0]
  /\ grid = XGrid(0, 1, 2)
  /\ xGridArray = <<>>
  /\ V = <<>>
  /\ energyStep = 0
  /\ E = 0
  /\ prevSign = 0
  /\ prevEnergy = 0
  /\ energies = <<>>
  /\ wavefunctions = <<>>
  /\ energyLow = 0
  /\ energyHigh = 0
  /\ outcome = "none"
  /\ result = [energies |-> <<>>, wavefunctions |-> <<>>, xGridArray |-> <<>>,
               method |-> "none"]
  /\ history = <<>>
  /\ scanIterations = 0
  /\ refineIterations = 0
  /\ integrateCalls = 0
  /\ integratedGrids = {}
  /\ scanEnergies = <<>>
  /\ scanSigns = <<>>
  /\ brackets = <<>>
  /\ psiReturned = <<>>

Init == \E sc \in Scenarios : InitOf(sc)

(***************************************************************************)
(* One integration.                                                        *)
(***************************************************************************)
\* The sign of the last entry the integrator writes, for the call c at energy e.
EndSign(c, g, e) == OnGrid(Signs(c.kind, c.parity, g), SignAt(env, e))

\* The class of the array whose last sign is s.
TailFor(kind, g, s) == IF env.tail \in Tails(kind, g, s) THEN env.tail ELSE "finite"

\* integrate( e, V, grid ) / integrateFromCenter( e, V, grid, parity )
PsiOf(c, g, e) ==
  Psi(c.kind, c.parity, g, EndSign(c, g, e), TailFor(c.kind, g, EndSign(c, g, e)))

Saturate(n) == IF n >= MaxCount THEN MaxCount ELSE n + 1

(***************************************************************************)
(* solve / solveSymmetric up to the first iteration of the scan.           *)
(***************************************************************************)
\* The number of steps the scan divides the window into.
ScanSteps(kind) == IF kind = "numerov" THEN ENERGY_SCAN_STEPS ELSE SYMMETRIC_SCAN_STEPS

\* ( energyMax - energyMin ) / steps
EnergyStep(energyMin, energyMax, steps) == (energyMax - energyMin) \div steps

\* As IntegrateAffirm, but an array V longer than the grid passes.
IntegrateAffirmAtLeast(v, g) == Len(v) >= GetLength(g)

\* affirm( V.length === N ) of NumerovIntegrator.integrate
IntegrateAffirm(v, g) == Len(v) = GetLength(g)

CallThrows(c) ==
  LET gc == c.gridConfig IN
  \/ XGridConstructorThrows(assertEnabled, gc.xMin, gc.xMax, gc.numPoints)
  \/ /\ c.kind = "numerov"
     /\ ~IntegrateAffirm(EvaluatePotential(GetArray(XGrid(gc.xMin, gc.xMax, gc.numPoints))),
                         XGrid(gc.xMin, gc.xMax, gc.numPoints))

\* As NewArray, but the array of the previous call is used again.
ReusedArray(previous) == previous

\* const energies: number[] = []; const wavefunctions: number[][] = [];
NewArray(previous) == <<>>

Begin(c) ==
  /\ pc = "idle"
  /\ plan # <<>>
  /\ c = Head(plan)
  /\ plan' = Tail(plan)
  /\ call' = c
  /\ scanIterations' = 0
  /\ refineIterations' = 0
  /\ integrateCalls' = IF CallThrows(c) THEN 0 ELSE 1
  /\ brackets' = <<>>
  /\ energies' = NewArray(energies)
  /\ wavefunctions' = NewArray(wavefunctions)
  /\ IF CallThrows(c)
     THEN /\ outcome' = "threw"
          /\ scanEnergies' = <<>>
          /\ scanSigns' = <<>>
          /\ UNCHANGED <<pc, grid, xGridArray, V, energyStep, E, prevSign, prevEnergy,
                         integratedGrids>>
     ELSE LET gc == c.gridConfig
              g == XGrid(gc.xMin, gc.xMax, gc.numPoints)
              xs == GetArray(g)
              v == EvaluatePotential(xs)
              psi0 == PsiOf(c, g, c.energyMin)
          IN   /\ grid' = g
               /\ xGridArray' = xs
               /\ V' = v
               /\ energyStep' = EnergyStep(c.energyMin, c.energyMax, ScanSteps(c.kind))
               /\ prevSign' = Sign(GetEndValue(psi0))
               /\ scanEnergies' = <<c.energyMin>>
               /\ scanSigns' = <<prevSign'>>
               /\ prevEnergy' = c.energyMin
               /\ E' = c.energyMin + energyStep'
               /\ integratedGrids' = integratedGrids \cup {g}
               /\ outcome' = "none"
               /\ pc' = "scan"
  /\ UNCHANGED <<psiReturned, assertEnabled, refiner, energyToleranceOverride, method, energyLow,
                 energyHigh, env, result, history>>

\* The caller's next call, if it has one.
NextCalls == IF plan = <<>> THEN {} ELSE {Head(plan)}

Solve == \E c \in NextCalls : c.kind = "numerov" /\ Begin(c)

SolveSymmetric == \E c \in NextCalls : c.kind = "numerov-symmetric" /\ Begin(c)

\* NumerovIntegrator.integrate( e, V, grid ) called by itself, the grid built
\* by the caller with new XGrid( xMin, xMax, numPoints ).
Integrate ==
  \E c \in NextCalls :
    /\ c.kind = "integrate"
    /\ pc = "idle"
    /\ plan' = Tail(plan)
    /\ call' = c
    /\ LET gc == c.gridConfig
           g == XGrid(gc.xMin, gc.xMax, gc.numPoints)
           v == [i \in 1..c.samples |-> 0]
           s == OnGrid(IntegrateSigns(g), SignAt(env, c.energyMin))
       IN IF \/ XGridConstructorThrows(assertEnabled, gc.xMin, gc.xMax, gc.numPoints)
             \/ ~IntegrateAffirm(v, g)
          THEN /\ outcome' = "threw"
               /\ psiReturned' = <<>>
          ELSE /\ outcome' = "integrated"
               /\ psiReturned' = IF c.steps = <<>>
                                 THEN IntegratePsi(g, s, TailFor("numerov", g, s))
                                 ELSE IntegrateSteps(GetLength(g), c.steps)
    /\ UNCHANGED <<assertEnabled, refiner, energyToleranceOverride, method, pc, grid,
                   xGridArray, V, energyStep, E, prevSign, prevEnergy, energies,
                   wavefunctions, energyLow, energyHigh, env, result, history,
                   scanIterations, refineIterations, integrateCalls, integratedGrids,
                   scanEnergies, scanSigns, brackets>>

\* SymmetricNumerovIntegrator.integrateFromCenter( e, V, grid, parity ) called
\* by itself, the grid built by the caller.
IntegrateFromCenter ==
  \E c \in NextCalls :
    /\ c.kind = "integrateFromCenter"
    /\ pc = "idle"
    /\ plan' = Tail(plan)
    /\ call' = c
    /\ LET gc == c.gridConfig
           g == XGrid(gc.xMin, gc.xMax, gc.numPoints)
       IN IF XGridConstructorThrows(assertEnabled, gc.xMin, gc.xMax, gc.numPoints)
          THEN /\ outcome' = "threw"
               /\ psiReturned' = <<>>
          ELSE /\ outcome' = "integrated"
               /\ psiReturned' = IntegrateFromCenterSteps(g, c.parity, c.steps)
    /\ UNCHANGED <<assertEnabled, refiner, energyToleranceOverride, method, pc, grid,
                   xGridArray, V, energyStep, E, prevSign, prevEnergy, energies,
                   wavefunctions, energyLow, energyHigh, env, result, history,
                   scanIterations, refineIterations, integrateCalls, integratedGrids,
                   scanEnergies, scanSigns, brackets>>

(***************************************************************************)
(* The scan loop of findBoundStates / findBoundStatesSymmetric.            *)
(***************************************************************************)
\* As SignChange, without the test of prevSign against 0.
SignChangeAnyPrevious(currentSign, previousSign) ==
  /\ StrictNotEqual(currentSign, 0)
  /\ StrictNotEqual(currentSign, previousSign)

\* As SignChange, without the test of currentSign against 0.
SignChangeAnyCurrent(currentSign, previousSign) ==
  /\ StrictNotEqual(previousSign, 0)
  /\ StrictNotEqual(currentSign, previousSign)

\* currentSign !== 0 && prevSign !== 0 && currentSign !== prevSign
SignChange(currentSign, previousSign) ==
  /\ StrictNotEqual(currentSign, 0)
  /\ StrictNotEqual(previousSign, 0)
  /\ StrictNotEqual(currentSign, previousSign)

\* E <= energyMax
ScanContinues(e, energyMax) == LessEq(e, energyMax)

\* if ( currentSign !== 0 ) { prevSign = currentSign; prevEnergy = E; }
\* As NextPrevSign, but a zero sign is remembered too.
NextPrevSignAlways(currentSign, previousSign) == currentSign

NextPrevSign(currentSign, previousSign) ==
  IF StrictNotEqual(currentSign, 0) THEN currentSign ELSE previousSign

\* As NextPrevEnergy, but a zero sign moves the lower end too.
NextPrevEnergyAlways(currentSign, e, previousEnergy) == e

\* As NextPrevEnergy, but the lower end of the next bracket is never moved up.
NextPrevEnergyStale(currentSign, e, previousEnergy) == previousEnergy

NextPrevEnergy(currentSign, e, previousEnergy) ==
  IF StrictNotEqual(currentSign, 0) THEN e ELSE previousEnergy

\* One iteration of the scan, up to the call of the refiner if there is one.
ScanStep ==
  /\ pc = "scan"
  /\ ScanContinues(E, call.energyMax)
  /\ scanIterations < MaxCount
  /\ LET psi == PsiOf(call, grid, E)
         currentSign == Sign(GetEndValue(psi))
     IN /\ scanEnergies' = Append(scanEnergies, E)
        /\ scanSigns' = Append(scanSigns, currentSign)
        /\ IF SignChange(currentSign, prevSign)
           THEN /\ brackets' = Append(brackets, <<prevEnergy, E>>)
                /\ energyLow' = prevEnergy
                /\ energyHigh' = E
                /\ refineIterations' = 0
                /\ pc' = "refine"
                /\ UNCHANGED <<E, prevSign, prevEnergy>>
           ELSE /\ prevSign' = NextPrevSign(currentSign, prevSign)
                /\ prevEnergy' = NextPrevEnergy(currentSign, E, prevEnergy)
                /\ E' = E + energyStep
                /\ UNCHANGED <<brackets, energyLow, energyHigh, refineIterations, pc>>
  /\ scanIterations' = Saturate(scanIterations)
  /\ integrateCalls' = Saturate(integrateCalls)
  /\ integratedGrids' = integratedGrids \cup {grid}
  /\ UNCHANGED <<psiReturned, assertEnabled, refiner, energyToleranceOverride, method, call, grid,
                 xGridArray, V, energyStep, energies, wavefunctions, env, outcome,
                 result, history, plan>>

\* What solve / solveSymmetric return.
BoundStateResult(es, ws, xs, m) ==
  [energies |-> es, wavefunctions |-> ws, xGridArray |-> xs, method |-> m]

\* The scan loop ends and the call returns.
ScanReturn ==
  /\ pc = "scan"
  /\ ~ScanContinues(E, call.energyMax)
  /\ result' = BoundStateResult(energies, wavefunctions, xGridArray, call.kind)
  /\ history' = Append(history, <<call, result'>>)
  /\ outcome' = "returned"
  /\ pc' = "idle"
  /\ UNCHANGED <<psiReturned, assertEnabled, refiner, energyToleranceOverride, method, call, grid,
                 xGridArray, V, energyStep, E, prevSign, prevEnergy, energies,
                 wavefunctions, energyLow, energyHigh, env, plan,
                 scanIterations, refineIterations, integrateCalls, integratedGrids,
                 scanEnergies, scanSigns, brackets>>

(***************************************************************************)
(* EnergyRefiner.refine and refineEnergySymmetric.                         *)
(***************************************************************************)
\* absoluteTolerance of refine, as a fraction
AbsoluteTolerance(r, E1, E2) ==
  IF r.isRelative THEN [num |-> r.tolNum * Abs(E2 - E1), den |-> r.tolDen]
  ELSE [num |-> r.tolNum, den |-> r.tolDen]

\* tolerance of refineEnergySymmetric: toleranceOverride ?? 1e-8 * |E2 - E1|
SymmetricTolerance(override, E1, E2) ==
  IF override.given THEN [num |-> override.value, den |-> 1]
  ELSE [num |-> Abs(E2 - E1), den |-> SymRelTolDen]

Tolerance(kind, E1, E2) ==
  IF kind = "numerov" THEN AbsoluteTolerance(refiner, E1, E2)
  ELSE SymmetricTolerance(energyToleranceOverride, E1, E2)

\* As RefineContinues, but the loop stops at twice the tolerance.
RefineContinuesToTwice(low, high, tol) == (high - low) * tol.den > 2 * tol.num

\* energyHigh - energyLow > absoluteTolerance
RefineContinues(low, high, tol) == (high - low) * tol.den > tol.num

\* ( E1 + E2 ) / 2, rounded to a representable energy
CalculateMidpoint(E1, E2) == (E1 + E2) \div 2

\* As HaveSameSign, but a zero first value matches every second value.
HaveSameSignOrZero(value1, value2) ==
  Sign(value1) = 0 \/ StrictEqual(Sign(value1), Sign(value2))

\* As HaveSameSign, but every midpoint is taken to match the low bound.
HaveSameSignAlways(value1, value2) == TRUE

\* Math.sign( value1 ) === Math.sign( value2 )
HaveSameSign(value1, value2) == StrictEqual(Sign(value1), Sign(value2))

\* The arguments E1, E2 of the running refiner call.
E1E2 == brackets[Len(brackets)]

\* One iteration of the bisection loop.
RefineStep ==
  /\ pc = "refine"
  /\ RefineContinues(energyLow, energyHigh, Tolerance(call.kind, E1E2[1], E1E2[2]))
  /\ refineIterations < MaxCount
  /\ LET N == GetNumberOfPoints(grid)
         energyMid == CalculateMidpoint(energyLow, energyHigh)
         psiMid == PsiOf(call, grid, energyMid)
         psiLow == PsiOf(call, grid, energyLow)
     IN IF HaveSameSign(GetEndValueN(psiMid, N), GetEndValueN(psiLow, N))
        THEN energyLow' = energyMid /\ UNCHANGED energyHigh
        ELSE energyHigh' = energyMid /\ UNCHANGED energyLow
  /\ refineIterations' = Saturate(refineIterations)
  /\ integrateCalls' = Saturate(Saturate(integrateCalls))
  /\ integratedGrids' = integratedGrids \cup {grid}
  /\ UNCHANGED <<psiReturned, assertEnabled, refiner, energyToleranceOverride, method, pc, call, grid,
                 xGridArray, V, energyStep, E, prevSign, prevEnergy, energies,
                 wavefunctions, env, outcome, result, history, plan, scanIterations,
                 scanEnergies, scanSigns, brackets>>

\* The bisection loop ends; the scan appends the refined energy and its
\* normalized wavefunction and finishes its iteration.
RefineReturn ==
  /\ pc = "refine"
  /\ ~RefineContinues(energyLow, energyHigh, Tolerance(call.kind, E1E2[1], E1E2[2]))
  /\ LET refinedEnergy == CalculateMidpoint(energyLow, energyHigh)
         refinedPsi == PsiOf(call, grid, refinedEnergy)
         currentSign == scanSigns[Len(scanSigns)]
     IN /\ energies' = Append(energies, refinedEnergy)
        /\ wavefunctions' = Append(wavefunctions, Normalize(method, refinedPsi, grid))
        /\ prevSign' = NextPrevSign(currentSign, prevSign)
        /\ prevEnergy' = NextPrevEnergy(currentSign, E, prevEnergy)
  /\ E' = E + energyStep
  /\ pc' = "scan"
  /\ integrateCalls' = Saturate(integrateCalls)
  /\ integratedGrids' = integratedGrids \cup {grid}
  /\ UNCHANGED <<psiReturned, assertEnabled, refiner, energyToleranceOverride, method, call, grid,
                 xGridArray, V, energyStep, energyLow, energyHigh, env, outcome, result,
                 history, plan, scanIterations, refineIterations, scanEnergies,
                 scanSigns, brackets>>

Next == Solve \/ SolveSymmetric \/ Integrate \/ IntegrateFromCenter \/ ScanStep \/ ScanReturn \/ RefineStep \/ RefineReturn

Spec == Init /\ [][Next]_vars

(***************************************************************************)
(* Properties.                                                             *)
(***************************************************************************)
\* C1: the energies of one solve or solveSymmetric call are in non-decreasing
\* order: each refined energy lies inside its own bracket [prevEnergy, E], and
\* a later bracket never starts below the upper end of an earlier one.
EnergiesAscending ==
  /\ \A i, j \in DOMAIN energies : i < j => energies[i] <= energies[j]
  /\ Len(energies) <= Len(brackets)
  /\ \A i \in DOMAIN energies :
       brackets[i][1] <= energies[i] /\ energies[i] <= brackets[i][2]
  /\ \A i, j \in DOMAIN brackets : i < j => brackets[j][1] >= brackets[i][2]
  /\ outcome = "returned" => result.energies = energies

\* Every boundary sign of the scan is -1, 0 or +1 and the grid is a valid one.
OrdinaryScan ==
  /\ ValidGrid(grid)
  /\ \A i \in DOMAIN scanSigns : scanSigns[i] \in {-1, 0, 1}

\* A call has returned two states, the second above the first.
TwoStatesReturned ==
  /\ outcome = "returned"
  /\ OrdinaryScan
  /\ Len(result.energies) >= 2
  /\ result.energies[1] < result.energies[2]

\* C2: on return from solve and from solveSymmetric (here: called with a valid
\* grid configuration), energies and wavefunctions have the same length,
\* wavefunctions[i] is the normalized integration at energies[i], and every
\* wavefunction has exactly numPoints entries.
ResultShape ==
  outcome = "returned" /\ ValidGrid(grid) =>
    /\ Len(result.energies) = Len(result.wavefunctions)
    /\ \A i \in DOMAIN result.wavefunctions :
         /\ i \in DOMAIN result.energies
         /\ result.wavefunctions[i] =
              Normalize(method, PsiOf(call, grid, result.energies[i]), grid)
         /\ Len(result.wavefunctions[i].psi) = call.gridConfig.numPoints

\* The trapezoidal estimate of the integral of psi^2 over the grid g, as the
\* fraction num / den, for an array of small integers: the sum over the
\* intervals of ( psi_i^2 + psi_{i+1}^2 ) * dx / 2.
RECURSIVE SumOfSquares(_, _)
SumOfSquares(psi, i) ==
  IF i >= Len(psi) THEN 0
  ELSE psi[i] * psi[i] + psi[i + 1] * psi[i + 1] + SumOfSquares(psi, i + 1)

TrapezoidEstimate(psi, g) ==
  [num |-> SumOfSquares(psi, 1) * (g.xMax - g.xMin), den |-> 2 * (g.numPoints - 1)]

\* The array w.psi divided by w's factor has trapezoidal estimate 1: the factor
\* is the square root of the estimate of w.psi.
UnitNorm(w, g) ==
  /\ w.by = "sqrt"
  /\ w.num * TrapezoidEstimate(w.psi, g).den = TrapezoidEstimate(w.psi, g).num * w.den

\* Every entry of psi is finite and so is its square.
SquaresFinite(psi) == \A i \in DOMAIN psi : psi[i] # NaN /\ Abs(psi[i]) < Huge

NonzeroSigns == SelectSeq(scanSigns, LAMBDA x : x # 0)

\* No two consecutive nonzero boundary signs of the scan differ.
NoSignChange ==
  \A i \in 1..(Len(NonzeroSigns) - 1) : StrictEqual(NonzeroSigns[i], NonzeroSigns[i + 1])

\* C4: if no two consecutive nonzero boundary signs differ across the scan
\* (also when every sign is zero), the call returns empty energies and empty
\* wavefunctions together with the grid array and the method tag.
NoSignChangeGivesEmptyResult ==
  /\ NoSignChange => energies = <<>> /\ wavefunctions = <<>> /\ pc # "refine"
  /\ outcome = "returned" /\ NoSignChange =>
       result = BoundStateResult(<<>>, <<>>, GetArray(grid), call.kind)

\* solve has returned from a full scan that met a zero and no sign change.
EmptyResultReturned ==
  /\ outcome = "returned"
  /\ OrdinaryScan
  /\ call.kind = "numerov"
  /\ NoSignChange
  /\ Len(scanSigns) = ENERGY_SCAN_STEPS + 1
  /\ \E i \in DOMAIN scanSigns : scanSigns[i] = 0
  /\ \E i \in DOMAIN scanSigns : scanSigns[i] # 0
  /\ result.energies = <<>>
  /\ result.method = "numerov"

\* The running or last call is a solve call.
SolveCalled == call.kind = "numerov"

\* C5: solve rejects an invalid or empty energy range (energyMax <= energyMin)
\* with a configuration error raised before the first integration: no
\* integrator call is made and no result is returned.
EmptyRangeRejected ==
  SolveCalled /\ call.energyMax <= call.energyMin =>
    outcome = "threw" /\ integrateCalls = 0 /\ pc = "idle"

\* C6: constructing a grid with numPoints < 2 or xMax <= xMin fails, so solve
\* given such a grid configuration fails before any integration runs, and no
\* integrator ever receives such a grid.
InvalidGridRejected ==
  /\ \A g \in integratedGrids : ValidGrid(g)
  /\ SolveCalled /\ ~ValidGrid(call.gridConfig) =>
       outcome = "threw" /\ integrateCalls = 0 /\ pc = "idle"

\* C7: every solve call terminates: for every energyMin, energyMax (also
\* energyMin = energyMax and energyMax < energyMin) the scan loop ends after at
\* most K = ENERGY_SCAN_STEPS iterations.
ScanBounded == SolveCalled => scanIterations <= ENERGY_SCAN_STEPS

\* The tolerance of the running refiner call.
RefinerTolerance == Tolerance(call.kind, E1E2[1], E1E2[2])

\* ceil( log2( w / t ) ) for w, t > 0 (0 when w <= t), counted up from n.
RECURSIVE CeilLog2(_, _, _)
CeilLog2(w, t, n) == IF w <= t \/ n >= MaxCount THEN n ELSE CeilLog2(w, 2 * t, n + 1)

\* The bisection steps taken stay within ceil(log2((E_high - E_low) / tolerance)).
WithinBisectionBound ==
  pc = "refine" /\ RefinerTolerance.num > 0 =>
    refineIterations <=
      CeilLog2((E1E2[2] - E1E2[1]) * RefinerTolerance.den, RefinerTolerance.num, 0)

\* A bisection step leaves a narrower bracket.
BisectionNarrows ==
  pc = "refine" /\ pc' = "refine" => energyHigh' - energyLow' < energyHigh - energyLow

\* C8: refine and the symmetric refiner terminate for every bracket and every
\* configured tolerance: every bisection step narrows the bracket, and the
\* number of steps is bounded by ceil(log2((E_high - E_low) / tolerance)).
RefinerTerminates == [][BisectionNarrows]_vars /\ []WithinBisectionBound

\* C9: two calls with identical arguments return identical energies,
\* wavefunctions, grid array and method tag, whatever calls were made on the
\* solver in between.
SameArgumentsSameResult ==
  \A i, j \in DOMAIN history : history[i][1] = history[j][1] => history[i][2] = history[j][2]

\* A call that found a state has been repeated after a different call.
RepeatedAfterAnotherCall ==
  \E i, j \in DOMAIN history :
    /\ i + 1 < j
    /\ history[i][1] = history[j][1]
    /\ history[i + 1][1] # history[i][1]
    /\ history[i][2].energies # <<>>
    /\ history[i + 1][2].energies # <<>>

\* The scan energies of the running call, computed ahead of the scan.
AllScanEnergies ==
  [i \in 1..(ScanSteps(call.kind) + 1) |-> call.energyMin + (i - 1) * energyStep]

\* Their boundary signs, each from its own integration.
AllScanSigns ==
  [i \in DOMAIN AllScanEnergies |->
     Sign(GetEndValue(PsiOf(call, grid, AllScanEnergies[i])))]

\* One sequential pass over the first n energies es and signs ss: the brackets
\* <<lower, upper>> in order, given the last nonzero sign and its energy.
RECURSIVE DetectBrackets(_, _, _, _, _, _)
DetectBrackets(es, ss, i, n, lastSign, lastEnergy) ==
  IF i > n THEN <<>>
  ELSE IF ss[i] = 0 THEN DetectBrackets(es, ss, i + 1, n, lastSign, lastEnergy)
  ELSE IF lastSign # 0 /\ (ss[i] # lastSign \/ IsNaN(ss[i]))
       THEN <<(<<lastEnergy, es[i]>>)>> \o DetectBrackets(es, ss, i + 1, n, ss[i], es[i])
       ELSE DetectBrackets(es, ss, i + 1, n, ss[i], es[i])

\* The brackets the two-phase computation reports from the first n scan energies.
TwoPhaseBrackets(n) ==
  DetectBrackets(AllScanEnergies, AllScanSigns, 2, n, AllScanSigns[1], AllScanEnergies[1])

\* C10: computing the boundary signs of all scan energies first and then
\* detecting brackets in one sequential pass over them yields the same brackets
\* (same endpoints, same order) as the scan that interleaves integration,
\* bracket detection and refinement.
TwoPhaseScanSameBrackets ==
  /\ pc # "idle" /\ call.energyMax > call.energyMin =>
       brackets = TwoPhaseBrackets(Len(scanSigns))
  /\ outcome = "returned" /\ call.energyMax > call.energyMin =>
       /\ brackets = TwoPhaseBrackets(ScanSteps(call.kind) + 1)
       /\ Len(result.energies) = Len(brackets)

\* A scan has returned after a bracket that spans a zero sign and another one.
TwoBracketsOverZero ==
  /\ outcome = "returned"
  /\ OrdinaryScan
  /\ Len(brackets) >= 2
  /\ \E i \in DOMAIN scanSigns : scanSigns[i] = 0
  /\ \E i \in DOMAIN brackets : brackets[i][2] - brackets[i][1] > energyStep

\* The step before i whose boundary sign is the most recent nonzero one (0 if
\* every earlier sign is zero); steps are counted from 1, step 1 is energyMin.
LastNonzeroBefore(ss, i) ==
  LET earlier == {j \in 1..(i - 1) : StrictNotEqual(ss[j], 0)}
  IN IF earlier = {} THEN 0 ELSE CHOOSE j \in earlier : \A k \in earlier : k <= j

\* s_i is nonzero, some earlier sign is nonzero, and the most recent nonzero
\* sign before i differs from s_i.
AlternatesAt(ss, i) ==
  /\ StrictNotEqual(ss[i], 0)
  /\ LastNonzeroBefore(ss, i) # 0
  /\ StrictNotEqual(ss[LastNonzeroBefore(ss, i)], ss[i])

\* The steps of the scan at which the nonzero signs alternate.
Alternations(ss) == {i \in 2..Len(ss) : AlternatesAt(ss, i)}

\* C12: for every sequence of boundary signs the scan reports a bracket at
\* step i exactly when s_i is nonzero, some earlier sign is nonzero and the most
\* recent nonzero sign before i differs from s_i; the number of states returned
\* is the number of alternations of the nonzero signs, and at most one state is
\* appended per scan step.
BracketsAreAlternations ==
  /\ Len(brackets) = Cardinality(Alternations(scanSigns))
  /\ energyStep > 0 =>
       \A i \in 2..Len(scanSigns) :
         AlternatesAt(scanSigns, i) <=> \E b \in DOMAIN brackets : brackets[b][2] = scanEnergies[i]
  /\ Len(energies) = IF pc = "refine" THEN Len(brackets) - 1 ELSE Len(brackets)
  /\ Len(energies) <= scanIterations
  /\ outcome = "returned" => Len(result.energies) = Cardinality(Alternations(scanSigns))

\* A full scan has returned one state from signs with a zero between the two
\* that alternate.
AlternationAcrossZero ==
  /\ outcome = "returned"
  /\ OrdinaryScan
  /\ call.kind = "numerov-symmetric"
  /\ Len(scanSigns) = SYMMETRIC_SCAN_STEPS + 1
  /\ \E i \in 2..(Len(scanSigns) - 1) :
       /\ scanSigns[i] = 0
       /\ scanSigns[i - 1] # 0
       /\ scanSigns[i + 1] = -scanSigns[i - 1]
       /\ Alternations(scanSigns) = {i + 1}
  /\ Len(result.energies) = 1

\* The scan takes a step whose boundary sign is exactly zero.
ZeroScanStep ==
  /\ pc = "scan"
  /\ Len(scanSigns') = Len(scanSigns) + 1
  /\ scanSigns'[Len(scanSigns')] = 0

\* A zero step keeps the tracked sign and energy and appends nothing.
ZeroStepKeepsTracked ==
  ZeroScanStep => UNCHANGED <<prevSign, prevEnergy, energies, wavefunctions, brackets, pc>>

\* Every bracket runs from the last energy whose sign was nonzero to the energy
\* of the step that detected it.
BracketStartsAtLastNonzero ==
  energyStep > 0 =>
    \A b \in DOMAIN brackets :
      \E i \in 2..Len(scanSigns) :
        /\ brackets[b][2] = scanEnergies[i]
        /\ LastNonzeroBefore(scanSigns, i) # 0
        /\ brackets[b][1] = scanEnergies[LastNonzeroBefore(scanSigns, i)]

\* C13: a scan step whose boundary sign is exactly zero leaves the tracked
\* previous sign and previous energy unchanged and appends nothing; a bracket
\* detected after one or more zero steps starts at the last energy whose sign
\* was nonzero, not at the scan energy just before.
ZeroStepSkipped == [][ZeroStepKeepsTracked]_vars /\ []BracketStartsAtLastNonzero

\* The refiner is running on a bracket that spans a zero step: it is two scan
\* steps wide.
BracketSpansZeroStep ==
  /\ pc = "refine"
  /\ OrdinaryScan
  /\ call.kind = "numerov"
  /\ Len(scanSigns) >= 3
  /\ scanSigns[Len(scanSigns) - 1] = 0
  /\ scanSigns[Len(scanSigns) - 2] # 0
  /\ E1E2 = <<scanEnergies[Len(scanSigns) - 2], scanEnergies[Len(scanSigns)]>>
  /\ E1E2[2] - E1E2[1] = 2 * energyStep
  /\ energyStep > 0

\* The boundary sign the scan obtains by integrating at energy e.
BoundarySign(e) == Sign(GetEndValue(PsiOf(call, grid, e)))

\* C14: every call the scan makes to the refiner satisfies the refiner's
\* precondition: the lower bound prevEnergy is strictly less than the upper
\* bound E, and the boundary signs obtained by integrating at prevEnergy and at
\* E are both nonzero and opposite (one is -1 and the other +1).  Stated for
\* calls with a valid grid and energyMin < energyMax.
RefinerPreconditionHolds ==
  pc = "refine" /\ ValidGrid(grid) /\ call.energyMin < call.energyMax =>
    /\ E1E2[1] < E1E2[2]
    /\ BoundarySign(E1E2[1]) \in {-1, 1}
    /\ BoundarySign(E1E2[2]) = -BoundarySign(E1E2[1])

\* The scan energies of solve for the window of the running call.
SolveScanEnergies ==
  [i \in 1..(ENERGY_SCAN_STEPS + 1) |->
     call.energyMin +
       (i - 1) * EnergyStep(call.energyMin, call.energyMax, ENERGY_SCAN_STEPS)]

\* The brackets solve reports over them for the boundary-sign function of env.
SolveBrackets ==
  LET ss == [i \in DOMAIN SolveScanEnergies |-> SignAt(env, SolveScanEnergies[i])]
  IN DetectBrackets(SolveScanEnergies, ss, 2, ENERGY_SCAN_STEPS + 1, ss[1],
                    SolveScanEnergies[1])

\* C15: solveSymmetric follows the control flow of solve: for the same
\* boundary-sign function of energy and the same energyMin < energyMax it
\* samples the same K = ENERGY_SCAN_STEPS equally spaced scan energies and
\* reports the same brackets as solve.
SymmetricScanAsSolve ==
  /\ pc = "idle"
  /\ outcome = "returned"
  /\ call.kind = "numerov-symmetric"
  /\ OrdinaryScan
  /\ call.energyMin < call.energyMax
  => /\ scanEnergies = SolveScanEnergies
     /\ brackets = SolveBrackets

\* The sign the refiner obtains at energy e: of entry N - 1 of the integration.
RefinerSign(e) == Sign(GetEndValueN(PsiOf(call, grid, e), GetNumberOfPoints(grid)))

\* The precondition of the running refiner call: E1 < E2 and the boundary
\* signs at E1 and E2 are nonzero and opposite.
RefinerPrecondition ==
  /\ E1E2[1] < E1E2[2]
  /\ RefinerSign(E1E2[1]) \in {-1, 1}
  /\ RefinerSign(E1E2[2]) = -RefinerSign(E1E2[1])

\* E1 <= E_low < E_high <= E2, the sign at E_low is the sign at E1, and the
\* signs at E_low and E_high differ.
BisectionInvariant ==
  pc = "refine" /\ RefinerPrecondition =>
    /\ E1E2[1] <= energyLow
    /\ energyLow < energyHigh
    /\ energyHigh <= E1E2[2]
    /\ RefinerSign(energyLow) = RefinerSign(E1E2[1])
    /\ StrictNotEqual(RefinerSign(energyLow), RefinerSign(energyHigh))

\* An iteration replaces exactly one of the two bounds by the midpoint.
BisectionReplacesOneBound ==
  pc = "refine" /\ pc' = "refine" /\ RefinerPrecondition =>
    \/ energyLow' = CalculateMidpoint(energyLow, energyHigh) /\ energyHigh' = energyHigh
    \/ energyHigh' = CalculateMidpoint(energyLow, energyHigh) /\ energyLow' = energyLow

\* C16: during refine and the symmetric refiner, under the precondition, every
\* iteration keeps E1 <= E_low < E_high <= E2, keeps the boundary sign at E_low
\* equal to the boundary sign at E1 and keeps the boundary signs at E_low and
\* E_high different; each iteration replaces exactly one bound by the midpoint.
RefineKeepsBracket == []BisectionInvariant /\ [][BisectionReplacesOneBound]_vars

\* The bisection has moved both bounds of a bracket that met the precondition.
BothBoundsMoved ==
  /\ pc = "refine"
  /\ OrdinaryScan
  /\ RefinerPrecondition
  /\ E1E2[1] < energyLow
  /\ energyHigh < E1E2[2]
  /\ refineIterations >= 2

\* The refiner returns to the scan.
RefineReturns == pc = "refine" /\ pc' = "scan"

IterationsForRelativeTolerance == CeilLog2(refiner.tolDen, refiner.tolNum, 0)

\* C18: with a relative tolerance t (the default) the number of bisection
\* iterations refine performs depends only on t: for every bracket E1 < E2 it
\* is ceil(log2(1/t)), whatever E1, E2 and the width of the bracket are.
IterationsDependOnlyOnTolerance ==
  /\ [](pc = "refine" /\ call.kind = "numerov" /\ refiner.isRelative /\ E1E2[1] < E1E2[2] =>
          refineIterations <= IterationsForRelativeTolerance)
  /\ [][RefineReturns /\ call.kind = "numerov" /\ refiner.isRelative /\ E1E2[1] < E1E2[2] =>
          refineIterations = IterationsForRelativeTolerance]_vars

\* A bisection step whose midpoint has a boundary value of exactly zero.
ZeroMidpointStep ==
  /\ pc = "refine"
  /\ pc' = "refine"
  /\ refineIterations' # refineIterations
  /\ RefinerSign(CalculateMidpoint(energyLow, energyHigh)) = 0

\* C19: in refine a midpoint whose boundary value is exactly zero is handled
\* by one fixed rule on every iteration: zero is treated as matching the low
\* bound, so E_low (and not E_high) is replaced by the midpoint.
ZeroMidpointReplacesLow ==
  [][ZeroMidpointStep =>
       /\ energyLow' = CalculateMidpoint(energyLow, energyHigh)
       /\ energyHigh' = energyHigh]_vars

\* C19, amended: a midpoint whose boundary value is exactly zero is handled by
\* the one rule of haveSameSign on every iteration: zero matches only a zero;
\* with a low bound whose boundary value is not zero (the precondition) zero is
\* treated as differing from the low bound, so E_high (and not E_low) is
\* replaced by the midpoint.
ZeroMidpointReplacesHigh ==
  [][ZeroMidpointStep =>
       IF RefinerSign(energyLow) = 0
       THEN /\ energyLow' = CalculateMidpoint(energyLow, energyHigh)
            /\ energyHigh' = energyHigh
       ELSE /\ energyHigh' = CalculateMidpoint(energyLow, energyHigh)
            /\ energyLow' = energyLow]_vars

\* The bisection has just put the upper bound on a midpoint whose boundary
\* value is zero, in a bracket that met the precondition.
UpperBoundOnZero ==
  /\ pc = "refine"
  /\ OrdinaryScan
  /\ RefinerPrecondition
  /\ refineIterations = 1
  /\ energyLow = E1E2[1]
  /\ energyHigh = CalculateMidpoint(E1E2[1], E1E2[2])
  /\ RefinerSign(energyHigh) = 0

\* The caller's last call was integrate with a grid of N >= 2 points that was
\* constructed.
IntegrateCalled ==
  /\ call.kind = "integrate"
  /\ call.gridConfig.numPoints >= 2
  /\ ~XGridConstructorThrows(assertEnabled, call.gridConfig.xMin, call.gridConfig.xMax,
                             call.gridConfig.numPoints)

\* C20: for every trial energy, every samples array of length N and every grid
\* with N >= 2 points, integrate returns an array of exactly N entries whose
\* first entry psi_0 is 0 (for N = 2 the array is [0, psi_1]); a samples array
\* whose length differs from N is rejected.
IntegrateReturnsNEntries ==
  IntegrateCalled =>
    /\ call.samples = call.gridConfig.numPoints =>
         /\ outcome = "integrated"
         /\ Len(psiReturned) = call.gridConfig.numPoints
         /\ psiReturned[1] = 0
    /\ call.samples # call.gridConfig.numPoints =>
         /\ outcome = "threw"
         /\ psiReturned = <<>>

\* integrate has returned [0, psi_1] with psi_1 nonzero on a grid of two points.
TwoPointArrayReturned ==
  /\ IntegrateCalled
  /\ outcome = "integrated"
  /\ call.gridConfig.numPoints = 2
  /\ ValidGrid(call.gridConfig)
  /\ Len(psiReturned) = 2
  /\ psiReturned[1] = 0
  /\ psiReturned[2] \in {-1, 1}

\* integrate has returned an array for a call whose step values are given.
IntegratedSteps ==
  /\ call.kind = "integrate"
  /\ outcome = "integrated"
  /\ call.steps # <<>>

\* d (0-based) is the first index at which psi exceeds the guard.
FirstExceeding(psi, d) ==
  /\ ExceedsGuard(psi[d + 1])
  /\ \A k \in 0..(d - 1) : ~ExceedsGuard(psi[k + 1])

\* C21: in integrate, at the first index d where |psi_d| exceeds 1e300 the
\* recurrence stops and every entry psi_k with k >= d equals psi_d (value and
\* sign) while the entries before d keep their recurrence values; so the
\* right-boundary sign of a diverged array is the sign of the value that diverged.
DivergedTailIsFilled ==
  /\ call.kind = "integrate" /\ outcome = "integrated" =>
       \A d \in 0..(Len(psiReturned) - 1) :
         FirstExceeding(psiReturned, d) =>
           /\ \A k \in d..(Len(psiReturned) - 1) : psiReturned[k + 1] = psiReturned[d + 1]
           /\ Sign(GetEndValue(psiReturned)) = Sign(psiReturned[d + 1])
  /\ IntegratedSteps =>
       \A d \in 0..(Len(psiReturned) - 1) :
         FirstExceeding(psiReturned, d) =>
           /\ psiReturned[d + 1] = call.steps[d + 1]
           /\ \A k \in 1..(d - 1) :
                psiReturned[k + 1] = NumerovStep(psiReturned[k], 0, call.steps[k + 1])

\* integrate has returned an array that diverged downwards before the last
\* point, where the step after it would have given something else.
NegativeDivergenceFilled ==
  /\ IntegratedSteps
  /\ Len(psiReturned) = 4
  /\ FirstExceeding(psiReturned, 2)
  /\ psiReturned[3] = -Huge
  /\ psiReturned[4] = -Huge
  /\ call.steps[4] = 1

\* C22: no entry of an array returned by integrate is NaN or +-Infinity, for
\* every finite trial energy and finite potential samples on a valid grid:
\* whatever value a Numerov step produces (an overflow, a division by a zero
\* denominator), the divergence guard keeps the output finite.
IntegrateOutputFinite ==
  call.kind = "integrate" /\ outcome = "integrated" /\ ValidGrid(call.gridConfig) =>
    \A k \in DOMAIN psiReturned : IsFinite(psiReturned[k])

\* integrateFromCenter has returned an array to its caller.
IntegratedFromCenter == call.kind = "integrateFromCenter" /\ outcome = "integrated"

\* The centre index of the grid of the caller's last call.
CallCenterIndex ==
  FindCenterIndex(XGrid(call.gridConfig.xMin, call.gridConfig.xMax,
                        call.gridConfig.numPoints))

\* The array integrateFromCenter would return with the loop and the guard of
\* the forward integrator.
WithForwardGuard ==
  ApplyParity(
    IntegrateForward(
      SetInitialConditionsFromCenter([k \in 1..call.gridConfig.numPoints |-> 0],
                                     CallCenterIndex, call.parity,
                                     call.steps[CallCenterIndex + 2]),
      call.steps, CallCenterIndex + 1),
    CallCenterIndex, call.parity)

\* C23: SymmetricNumerovIntegrator applies the divergence guard of the forward
\* integrator: when |psi_{j+1}| exceeds 1e300 it stops and fills the remaining
\* entries with that signed value, so the right-boundary sign of a diverged
\* array is the sign of the diverging value, for positive and for negative
\* divergence.
SymmetricGuardAsForward ==
  IntegratedFromCenter /\ RecurrenceRuns(XGrid(call.gridConfig.xMin, call.gridConfig.xMax,
                                               call.gridConfig.numPoints)) =>
    /\ psiReturned = WithForwardGuard
    /\ Sign(GetEndValue(psiReturned)) = Sign(GetEndValue(WithForwardGuard))

\* The factor of the mirroring for the parity of the caller's last call.
CallParitySign == IF call.parity = "symmetric" THEN 1 ELSE -1

\* C24: after integrateFromCenter every entry left of the center index c is
\* set by mirroring, psi_i = sign * psi_{2c-i} for all i < c, with sign +1 for
\* 'symmetric' and -1 for 'antisymmetric' (and psi_c = 0 for 'antisymmetric'),
\* for every valid grid and every c that findCenterIndex returns.
LeftHalfMirrored ==
  IntegratedFromCenter =>
    /\ \A i \in 0..(CallCenterIndex - 1) :
         psiReturned[i + 1] = Mirror(CallParitySign, At(psiReturned, 2 * CallCenterIndex - i))
    /\ call.parity = "antisymmetric" => psiReturned[CallCenterIndex + 1] = 0

\* C24, amended: every entry i < c whose mirror index 2c - i lies within the
\* returned array is set by mirroring, psi_i = sign * psi_{2c-i}; an entry whose
\* mirror index lies beyond the end of the array keeps the 0 it was created
\* with; psi_c = 0 for 'antisymmetric'.
LeftHalfMirroredWithinArray ==
  IntegratedFromCenter =>
    /\ \A i \in 0..(CallCenterIndex - 1) :
         IF 2 * CallCenterIndex - i < Len(psiReturned)
         THEN psiReturned[i + 1] =
                Mirror(CallParitySign, At(psiReturned, 2 * CallCenterIndex - i))
         ELSE psiReturned[i + 1] = 0
    /\ call.parity = "antisymmetric" => psiReturned[CallCenterIndex + 1] = 0

\* An antisymmetric integration on the grid that is not symmetric about 0 has
\* returned: one entry mirrored with the opposite sign, one left at 0.
MirroredAndUnmirrored ==
  /\ IntegratedFromCenter
  /\ call.parity = "antisymmetric"
  /\ call.gridConfig = OffCenterGrid
  /\ CallCenterIndex = 2
  /\ Len(psiReturned) = 4
  /\ psiReturned[4] = 1
  /\ psiReturned[2] = -1
  /\ psiReturned[1] = 0

\* C25: integrateFromCenter returns an array of exactly numPoints entries and
\* never writes an index outside [0, numPoints-1] (a write past the end makes a
\* JavaScript array longer), for every valid grid, also when findCenterIndex is
\* clamped to numPoints-1 or to 0.
FromCenterReturnsNEntries ==
  IntegratedFromCenter => Len(psiReturned) = call.gridConfig.numPoints

\* The integral whose square root is the factor of the methods that integrate.
NormIntegral(m, psi, g) ==
  IF m = "simpson" THEN CalculateSimpsonIntegral(psi, g)
  ELSE CalculateTrapezoidalIntegral(psi, g)

\* The normalization factor computed for psi is zero or not finite.
FactorZeroOrNotFinite(m, psi, g) ==
  IF m = "max"
  THEN FindMaxAbsoluteValue(psi, 1) = 0 \/ ~IsFinite(FindMaxAbsoluteValue(psi, 1))
  ELSE \/ NormIntegral(m, psi, g).class # "finite"
       \/ NormIntegral(m, psi, g).num = 0
       \/ NormIntegral(m, psi, g).num * NormIntegral(m, psi, g).den < 0

\* C26: normalize returns the input values unscaled whenever the computed
\* normalization factor is zero or not finite (an all-zero wavefunction, a norm
\* that is infinite or NaN) and never divides by zero; in every other case each
\* entry is divided by the same factor (the maximum, or the square root of the
\* integral); the values of the input array are those the integrator returned.
NormalizeGuardsFactor ==
  \A i \in DOMAIN wavefunctions :
    LET w == wavefunctions[i] IN
    /\ i \in DOMAIN energies
    /\ w.psi = PsiOf(call, grid, energies[i])
    /\ IF FactorZeroOrNotFinite(method, w.psi, grid)
       THEN w.by = "none"
       ELSE /\ w.num # 0 /\ w.den # 0
            /\ IF method = "max"
               THEN w.by = "value" /\ w.num = FindMaxAbsoluteValue(w.psi, 1) /\ w.den = 1
               ELSE /\ w.by = "sqrt"
                    /\ w.num = NormIntegral(method, w.psi, grid).num
                    /\ w.den = NormIntegral(method, w.psi, grid).den

\* Under the 'max' method an all-zero wavefunction, whose factor is 0, has
\* been appended with the values it had.
ZeroWavefunctionUnscaled ==
  /\ method = "max"
  /\ \E i \in DOMAIN wavefunctions :
       /\ \A k \in DOMAIN wavefunctions[i].psi : wavefunctions[i].psi[k] = 0
       /\ wavefunctions[i].by = "none"

\* Every entry of psi is the finite value c.
ConstantAt(psi, c) ==
  /\ IsFinite(c) /\ Abs(c) < Huge
  /\ \A k \in DOMAIN psi : psi[k] = c

\* C27: in Simpson mode the quadrature integrates each of the N - 1 intervals
\* exactly once (no trapezoidal term when N - 1 is even; the trapezoid covers
\* only the last interval when N - 1 is odd), so for a constant psi = c the
\* integral is c^2 * (N - 1) * dx for every N >= 2; here for the arrays with
\* c # 0 that are normalized under 'simpson', whose recorded factor is the
\* square root of that integral.
SimpsonCoversEachIntervalOnce ==
  method = "simpson" /\ ValidGrid(grid) =>
    \A i \in DOMAIN wavefunctions :
      LET w == wavefunctions[i]
          c == w.psi[1]
      IN Len(w.psi) >= 2 /\ ConstantAt(w.psi, c) /\ c # 0 =>
           /\ w.by = "sqrt"
           /\ w.num * DxDen(grid) = c * c * (Len(w.psi) - 1) * DxNum(grid) * w.den

\* C28: calculateSimpsonIntegral reads only samples with index in [0, N - 1],
\* for every sample count N >= 2, odd or even, so a wavefunction with finite
\* entries never gives an undefined or NaN term in the Simpson sum.
SimpsonReadsWithinArray ==
  method = "simpson" /\ ValidGrid(grid) =>
    \A i \in DOMAIN wavefunctions :
      LET psi == wavefunctions[i].psi IN
      Len(psi) >= 2 =>
        /\ SimpsonIndices(Len(psi)) \subseteq 0..(Len(psi) - 1)
        /\ SquaresFinite(psi) => CalculateSimpsonIntegral(psi, grid).class = "finite"

\* The grid of the caller's last call.
CallGrid == XGrid(call.gridConfig.xMin, call.gridConfig.xMax, call.gridConfig.numPoints)

SampledOnce(samples, xs, g) ==
  /\ Len(samples) = g.numPoints
  /\ DOMAIN samples = DOMAIN xs
  /\ \A i \in DOMAIN samples : samples[i] = Potential(xs[i])

====
